---- MODULE Spec2Model ----
(***************************************************************************)
(* Model of packages/lib/raqb/findTeamMembersMatchingAttributeLogic.ts:    *)
(* the attribute-logic entry point findTeamMembersMatchingAttributeLogic   *)
(* (with getAttributesForLogic, asyncPerf, runAttributeLogic) and the      *)
(* query evaluator evaluateRaqbLogic (with its warnOnce closure); and of    *)
(* three API routes: the booking POST handler, the booking DELETE handler  *)
(* and the provider signup handler.                                        *)
(***************************************************************************)
EXTENDS FiniteSets, Integers, Sequences, TLC

\* ------------------------------------------------------------------------
\* Bounds of the model
\* ------------------------------------------------------------------------

\* user ids the attribute fetch may return: 1..MaxMembers
MaxMembers == 2

\* largest difference of two performance.now() readings around the fetch
MaxDuration == 1

\* the instants of a booking request: ticks 0..MaxTick of half a minute
MaxTick == 3

\* most date ranges getUserAvailability returns
MaxRanges == 2

\* provider ids of the Booking table: 1..MaxProviders
MaxProviders == 2

\* mailboxes that sign up
MaxEmails == 2

\* ------------------------------------------------------------------------
\* JavaScript values
\* ------------------------------------------------------------------------

Null == [jsType |-> "null"]

Undefined == [jsType |-> "undefined"]

JSBool(b) == [jsType |-> "boolean", value |-> b]

\* a JavaScript array holding the elements of the sequence `items`
JSArray(items) == [jsType |-> "array", items |-> items]

\* Boolean(v) for the values of the model: null and undefined are falsy,
\* every object (also an empty group) is truthy.
Truthy(v) ==
  IF v.jsType = "boolean" THEN v.value ELSE v.jsType \notin {"null", "undefined"}

\* a ?? b
Nullish(a, b) == IF a = Null \/ a = Undefined THEN b ELSE a

Fulfilled(v) == [value |-> v, status |-> "fulfilled"]

Rejected(e) == [status |-> "rejected", reason |-> e]

\* ------------------------------------------------------------------------
\* Inputs: query values, operands, options, the attribute fetch
\* ------------------------------------------------------------------------

Group(combinator, rules) ==
  [jsType |-> "object", combinator |-> combinator, rules |-> rules, type |-> "group"]

Rule(attributeId, operator, operand) ==
  [jsType |-> "object", type |-> "rule", attributeId |-> attributeId,
   operator |-> operator, operand |-> operand]

EmptyAnd == Group("AND", <<>>)

EmptyOr == Group("OR", <<>>)

EqSales == Rule("Department", "EQUALS", {"Sales"})

NoneInSales == Rule("Department", "NONE_IN", {"Sales"})

\* a rule whose operand is the placeholder of a dynamic field value, to be
\* resolved from dynamicFieldValueOperands
EqDynamic == Rule("Department", "EQUALS", {"{field:location}"})

\* the query trees a caller passes (AttributesQueryValue)
QueryTrees == {EmptyAnd, EmptyOr, EqSales, NoneInSales}

\* data.attributesQueryValue: AttributesQueryValue | null
PrimaryValues == {Null, EmptyAnd, EqSales, NoneInSales, EqDynamic}

\* data.fallbackAttributesQueryValue?: AttributesQueryValue | null
FallbackValues == {Undefined, EmptyOr, NoneInSales}

\* data.dynamicFieldValueOperands?: dynamicFieldValueOperands
BoundOperands == [jsType |-> "object", fields |-> {"location"}]

OperandValues == {Undefined, BoundOperands}

\* options.enableTroubleshooter?: boolean
TroubleshooterValues == {Undefined, JSBool(FALSE), JSBool(TRUE)}

DataValues ==
  [attributesQueryValue : PrimaryValues,
   dynamicFieldValueOperands : OperandValues,
   fallbackAttributesQueryValue : FallbackValues]

OptionsValues == [enableTroubleshooter : TroubleshooterValues]

Members == 1..MaxMembers

\* the options assigned to a member for the attribute Department
DepartmentOf(userId) ==
  IF userId = 1 THEN {"Sales"} ELSE IF userId = 2 THEN {"Support"} ELSE {}

TeamMember(userId) == [userId |-> userId, Department |-> DepartmentOf(userId)]

AttributesOfTheOrg == <<"Department">>

\* what getAttributesAssignmentData({teamId, orgId}) resolves to
AssignmentData(ids) ==
  [attributesAssignedToTeamMembersWithOptions |-> {TeamMember(i) : i \in ids},
   attributesOfTheOrg |-> AttributesOfTheOrg]

FetchResults == {AssignmentData(ids) : ids \in SUBSET Members}

FetchErrors == {"DataUnavailableError"}

Durations == 0..MaxDuration

\* what a call of performance.now() does: it returns a number, or it throws
\* (the clock is unavailable)
Reading(now) == [now |-> now, ok |-> TRUE]

ClockFailure == [ok |-> FALSE]

\* what performance.now() throws when the clock is unavailable
ClockError == "ClockUnavailableError"

\* a call of performance.now() that was never made
NotRead == [ok |-> FALSE, read |-> FALSE]

\* the two readings of asyncPerf: `start` before fn(), `end` after it
Clock(start, end) == [start |-> start, end |-> end]

StartReadings == {Reading(0), ClockFailure}

EndReadings == {Reading(d) : d \in Durations} \cup {ClockFailure}

\* ------------------------------------------------------------------------
\* The functions of findTeamMembersMatchingAttributeLogic.ts
\* ------------------------------------------------------------------------

NO_LOGIC_FOUND == "no-logic-found"

MATCH_RESULTS_READY == "match-results-ready"

MATCH_RESULTS_READY_WITH_FALLBACK == "match-results-ready-with-fallback"

MATCHES_ALL_MEMBERS_BECAUSE_OF_EMPTY_QUERY_VALUE ==
  "matches-all-members-because-of-empty-query-value"

MATCHES_ALL_MEMBERS == "matches-all-members"

DisabledWarning ==
  "Attribute routing logic evaluation is disabled in this deployment."

\* asyncPerf with the rejection of fn() caught and an empty result returned
asyncPerfCatching(settled, clock) ==
  IF ~clock.start.ok
  THEN Rejected(ClockError)
  ELSE IF settled.status = "rejected"
  THEN Fulfilled(<<[attributesAssignedToTeamMembersWithOptions |-> {},
                    attributesOfTheOrg |-> <<>>], Null>>)
  ELSE IF ~clock.end.ok
  THEN Rejected(ClockError)
  ELSE Fulfilled(<<settled.value, clock.end.now - clock.start.now>>)

\* asyncPerf(fn): `settled` is how fn() settles, `clock` holds the two
\* readings of performance.now(). There is no try/catch: a throw of the first
\* reading rejects before fn() is called, a rejection of fn() is the
\* rejection of asyncPerf, and a throw of the second reading rejects too.
asyncPerf(settled, clock) ==
  IF ~clock.start.ok
  THEN Rejected(ClockError)
  ELSE IF settled.status = "rejected"
  THEN settled
  ELSE IF ~clock.end.ok
  THEN Rejected(ClockError)
  ELSE Fulfilled(<<settled.value, clock.end.now - clock.start.now>>)

buildTroubleshooterData(type, data) ==
  [troubleshooter |-> [type |-> type, data |-> data]]

\* the object runAttributeLogic returns
runAttributeLogicReturn(data, options) ==
  LET enableTroubleshooter == options.enableTroubleshooter
      attributesOfTheOrg == data.attributesData.attributesOfTheOrg
      teamMembersWithAttributeOptionValuePerAttribute ==
        data.attributesData.teamMembersWithAttributeOptionValuePerAttribute
      shouldWarnAboutMissingLogic == Truthy(data.attributesQueryValue)
      result ==
        [logicBuildingWarnings |->
           IF shouldWarnAboutMissingLogic
           THEN JSArray(<<DisabledWarning>>)
           ELSE JSArray(<<>>),
         teamMembersMatchingAttributeLogic |-> Null,
         timeTaken |-> Null]
  IN  IF enableTroubleshooter
      THEN result @@
           buildTroubleshooterData(NO_LOGIC_FOUND,
             [reason |-> "Attribute routing logic disabled on server.",
              attributesOfTheOrg |-> attributesOfTheOrg,
              teamMembersWithAttributeOptionValuePerAttribute |->
                teamMembersWithAttributeOptionValuePerAttribute])
      ELSE result

\* runAttributeLogic with `attributesQueryValue ? null : []` for the members
runAttributeLogicEmptyWithoutQuery(data, options) ==
  [runAttributeLogicReturn(data, options) EXCEPT
     !.teamMembersMatchingAttributeLogic =
        IF Truthy(data.attributesQueryValue) THEN Null ELSE JSArray(<<>>)]

\* runAttributeLogic with `attributesQueryValue ? [] : null` for the members
runAttributeLogicEmptyWithQuery(data, options) ==
  [runAttributeLogicReturn(data, options) EXCEPT
     !.teamMembersMatchingAttributeLogic =
        IF Truthy(data.attributesQueryValue) THEN JSArray(<<>>) ELSE Null]

\* runAttributeLogic with the warning issued only under the troubleshooter
runAttributeLogicWarningUnderTroubleshooter(data, options) ==
  [runAttributeLogicReturn(data, options) EXCEPT
     !.logicBuildingWarnings =
        IF Truthy(data.attributesQueryValue) /\ options.enableTroubleshooter
        THEN JSArray(<<DisabledWarning>>)
        ELSE JSArray(<<>>)]

\* runAttributeLogic with the case MATCHES_ALL_MEMBERS for a present query value
runAttributeLogicCaseByQuery(data, options) ==
  IF options.enableTroubleshooter /\ Truthy(data.attributesQueryValue)
  THEN [runAttributeLogicReturn(data, options) EXCEPT
          !.troubleshooter.type = MATCHES_ALL_MEMBERS]
  ELSE runAttributeLogicReturn(data, options)

\* runAttributeLogic adding a warning when no dynamic operand is bound
runAttributeLogicWarnUnboundOperand(data, options) ==
  LET returned == runAttributeLogicReturn(data, options)
  IN  IF data.dynamicFieldValueOperands = Undefined
      THEN [returned EXCEPT !.logicBuildingWarnings =
              JSArray(Append(@.items, "Dynamic operand has no bound value."))]
      ELSE returned

\* what `await runAttributeLogic(data, options)` evaluates to: the function
\* awaits nothing and returns its object
runAttributeLogic(data, options) == runAttributeLogicReturn(data, options)

\* getAttributesForLogic: `settled` is how getAttributesAssignmentData settles
getAttributesForLogic(settled, clock) ==
  LET perf == asyncPerf(settled, clock)
  IN  IF perf.status = "rejected"
      THEN perf
      ELSE Fulfilled(
             [attributesOfTheOrg |-> perf.value[1].attributesOfTheOrg,
              teamMembersWithAttributeOptionValuePerAttribute |->
                perf.value[1].attributesAssignedToTeamMembersWithOptions,
              timeTaken |-> perf.value[2]])

\* const { enableTroubleshooter = false } = options
enableTroubleshooterOf(options) ==
  IF options.enableTroubleshooter = Undefined
  THEN FALSE
  ELSE options.enableTroubleshooter.value

\* runAttributeLogicData with the fallback query value preferred
runAttributeLogicDataOfFallbackFirst(data, attributes) ==
  [attributesQueryValue |->
     Nullish(data.fallbackAttributesQueryValue, data.attributesQueryValue),
   dynamicFieldValueOperands |-> data.dynamicFieldValueOperands,
   attributesData |->
     [attributesOfTheOrg |-> attributes.attributesOfTheOrg,
      teamMembersWithAttributeOptionValuePerAttribute |->
        attributes.teamMembersWithAttributeOptionValuePerAttribute]]

\* the RunAttributeLogicData built from the call's data and the fetched attributes
runAttributeLogicDataOf(data, attributes) ==
  [attributesQueryValue |-> data.attributesQueryValue,
   dynamicFieldValueOperands |-> data.dynamicFieldValueOperands,
   attributesData |->
     [attributesOfTheOrg |-> attributes.attributesOfTheOrg,
      teamMembersWithAttributeOptionValuePerAttribute |->
        attributes.teamMembersWithAttributeOptionValuePerAttribute]]

\* the object findTeamMembersMatchingAttributeLogic returns, from what
\* runAttributeLogic returned (`ran`) and the time the fetch took
returnValue(ran, ttGetAttributesForLogic) ==
  LET troubleshooter ==
        IF "troubleshooter" \in DOMAIN ran THEN ran.troubleshooter ELSE Undefined
      base ==
        [teamMembersMatchingAttributeLogic |-> ran.teamMembersMatchingAttributeLogic,
         timeTaken |->
           IF Nullish(ran.timeTaken, Undefined) = Undefined
           THEN [ttGetAttributesForLogic |-> ttGetAttributesForLogic]
           ELSE [ttGetAttributesForLogic |-> ttGetAttributesForLogic] @@ ran.timeTaken,
         checkedFallback |-> FALSE,
         fallbackAttributeLogicBuildingWarnings |-> JSArray(<<>>),
         mainAttributeLogicBuildingWarnings |-> Nullish(ran.logicBuildingWarnings, JSArray(<<>>))]
  IN  IF Nullish(troubleshooter, Undefined) = Undefined
      THEN base
      ELSE base @@ troubleshooter

\* the calls of runAttributeLogic one call of
\* findTeamMembersMatchingAttributeLogic makes, as the arguments passed
runAttributeLogicCalls(data, options, settled, clock) ==
  LET attributes == getAttributesForLogic(settled, clock)
  IN  IF attributes.status = "rejected"
      THEN <<>>
      ELSE <<[data |-> runAttributeLogicDataOf(data, attributes.value),
              options |-> [enableTroubleshooter |-> enableTroubleshooterOf(options)]]>>

\* findTeamMembersMatchingAttributeLogic with `checkedFallback: true`
findTeamMembersCheckedFallbackTrue(data, options, settled, clock) ==
  LET attributes == getAttributesForLogic(settled, clock)
  IN  IF attributes.status = "rejected"
      THEN attributes
      ELSE LET ran == runAttributeLogic(
                        runAttributeLogicDataOf(data, attributes.value),
                        [enableTroubleshooter |-> enableTroubleshooterOf(options)])
           IN  Fulfilled([returnValue(ran, attributes.value.timeTaken)
                            EXCEPT !.checkedFallback = TRUE])

\* how the promise of findTeamMembersMatchingAttributeLogic(data, options)
\* settles when getAttributesAssignmentData settles as `settled`
findTeamMembersMatchingAttributeLogic(data, options, settled, clock) ==
  LET attributes == getAttributesForLogic(settled, clock)
  IN  IF attributes.status = "rejected"
      THEN attributes
      ELSE LET ran == runAttributeLogic(
                        runAttributeLogicDataOf(data, attributes.value),
                        [enableTroubleshooter |-> enableTroubleshooterOf(options)])
           IN  Fulfilled(returnValue(ran, attributes.value.timeTaken))

\* ------------------------------------------------------------------------
\* evaluateRaqbLogic and its warnOnce closure
\* ------------------------------------------------------------------------

MATCH == "MATCH"

NO_MATCH == "NO_MATCH"

LOGIC_NOT_FOUND_SO_MATCHED == "LOGIC_NOT_FOUND_SO_MATCHED"

DisabledEvaluationWarning ==
  "evaluateRaqbLogic: React Awesome Query Builder evaluation is disabled. Falling back to default match behaviour."

\* input.queryValue: unknown
EvaluateQueryValues == QueryTrees \cup {Null}

\* input.beStrictWithEmptyLogic?: boolean
StrictValues == {Undefined, JSBool(FALSE), JSBool(TRUE)}

\* the second argument: omitted, or {logLevel: 0 | 1 | 2}
ConfigValues == {Undefined} \cup {[logLevel |-> l] : l \in {0, 1, 2}}

\* _config: EvaluateConfig = { logLevel: 1 }
configOrDefault(config) == IF config = Undefined THEN [logLevel |-> 1] ELSE config

\* ------------------------------------------------------------------------
\* JavaScript strings and numbers of the API routes
\* ------------------------------------------------------------------------

\* a string, as the sequence of its characters
JSString(chars) == [jsType |-> "string", chars |-> chars]

JSNum(n) == [jsType |-> "number", value |-> n]

NaN == [jsType |-> "number", nan |-> TRUE]

DigitChars == <<"0", "1", "2", "3", "4", "5", "6", "7", "8", "9">>

IsDigit(c) == \E i \in DOMAIN DigitChars : DigitChars[i] = c

DigitValue(c) == (CHOOSE i \in DOMAIN DigitChars : DigitChars[i] = c) - 1

\* the number written by the longest prefix of digits of chars[i..], after
\* the digits read so far gave `acc`
RECURSIVE DigitsPrefix(_, _, _)
DigitsPrefix(chars, i, acc) ==
  IF i <= Len(chars) /\ IsDigit(chars[i])
  THEN DigitsPrefix(chars, i + 1, acc * 10 + DigitValue(chars[i]))
  ELSE acc

\* parseInt(id, 10) of a string: an optional sign, then the longest prefix of
\* digits; NaN when no digit is there. What follows the digits is ignored.
parseInt(string) ==
  LET chars == string.chars
      signed == chars # <<>> /\ chars[1] \in {"-", "+"}
      first == IF signed THEN 2 ELSE 1
  IN  IF first > Len(chars) \/ ~IsDigit(chars[first])
      THEN NaN
      ELSE IF signed /\ chars[1] = "-"
      THEN JSNum(0 - DigitsPrefix(chars, first, 0))
      ELSE JSNum(DigitsPrefix(chars, first, 0))

\* Number.isFinite(n)
IsFinite(n) == "value" \in DOMAIN n

\* !Number.isFinite(providerId) || providerId <= 0
InvalidProviderId(providerId) == ~IsFinite(providerId) \/ providerId.value <= 0

\* NextResponse.json({error}, {status})
ErrorResponse(status, error) == [status |-> status, error |-> error]

\* no response yet
NoResponse == [jsType |-> "undefined"]

\* the handler's promise rejected with `error` instead of answering
Thrown(error) == [thrown |-> error]

\* ------------------------------------------------------------------------
\* POST /api/platform/providers/[id]/bookings: times and inputs
\* ------------------------------------------------------------------------

\* the instants of the model are ticks of half a minute
TicksPerMinute == 2

Ticks == 0..MaxTick

\* a dayjs object
At(tick) == [at |-> tick, valid |-> TRUE]

InvalidDate == [valid |-> FALSE]

\* an ISO date string, and a string dayjs cannot parse
ISO(tick) == [jsType |-> "string", iso |-> tick]

NotADate == [jsType |-> "string", text |-> "tomorrow"]

\* dayjs(value): a dayjs object is cloned, an ISO string is parsed, any other
\* string gives an invalid date
dayjs(value) ==
  IF "valid" \in DOMAIN value
  THEN value
  ELSE IF "iso" \in DOMAIN value THEN At(value.iso) ELSE InvalidDate

\* date.add(minutes, "minute")
addMinutes(date, minutes) ==
  IF date.valid THEN At(date.at + minutes * TicksPerMinute) ELSE InvalidDate

isAfter(a, b) == a.valid /\ b.valid /\ a.at > b.at

isBefore(a, b) == a.valid /\ b.valid /\ a.at < b.at

\* a.diff(b, "minute"): the whole minutes between two valid dates, truncated
\* towards zero
diffMinutes(a, b) ==
  IF a.at >= b.at
  THEN (a.at - b.at) \div TicksPerMinute
  ELSE 0 - ((b.at - a.at) \div TicksPerMinute)

toISOString(date) == ISO(date.at)

\* params.id: a string, or not a string
PostIds == {Undefined, JSString(<<"x">>), JSString(<<"0">>), JSString(<<"1">>)}

StartStrings == {NotADate} \cup {ISO(t) : t \in Ticks}

EndStrings == {Undefined, NotADate} \cup {ISO(t) : t \in Ticks}

DurationMinutesValues == {Undefined, JSNum(0), JSNum(1)}

\* the request bodies: the fields of bookingRequestSchema the handler reads
PostBodies ==
  [start : StartStrings,
   end : EndStrings,
   durationMinutes : DurationMinutesValues,
   eventTypeId : {0, 1}]

\* bookingRequestSchema accepts the body: eventTypeId and durationMinutes,
\* when given, are positive integers
SchemaAccepts(body) ==
  /\ body.eventTypeId > 0
  /\ body.durationMinutes # Undefined => body.durationMinutes.value > 0

ZodError == "ZodError"

\* the rows prisma.user.findUnique may return
ProviderRows(providerId) == {Null, [id |-> providerId, username |-> JSString(<<"a">>)]}

HostsValues ==
  {<<[user |-> [username |-> Null]]>>,
   <<[user |-> [username |-> JSString(<<"a">>)]]>>}

MetadataValues ==
  {Null,
   [multipleDuration |-> JSArray(<<0, 1>>)],
   [multipleDuration |-> JSArray(<<2>>)]}

SeatsValues == {Null, JSNum(1), JSNum(2)}

\* the rows prisma.eventType.findFirst may return for the event type id
EventTypeRows(eventTypeId) ==
  {Null} \cup
  {[id |-> eventTypeId, hosts |-> hosts, length |-> length,
    metadata |-> metadata, seatsPerTimeSlot |-> seats, slug |-> Null] :
     hosts \in HostsValues, length \in {0, 1},
     metadata \in MetadataValues, seats \in SeatsValues}

\* the date ranges getUserAvailability may return
DateRanges == {[start |-> At(a), end |-> At(b)] : a \in Ticks, b \in Ticks}

AvailabilityValues ==
  {[dateRanges |-> ranges] :
     ranges \in {r \in SUBSET {d \in DateRanges : d.start.at < d.end.at} :
                   Cardinality(r) <= MaxRanges}}

HttpError(statusCode) == [statusCode |-> statusCode, name |-> "HttpError"]

\* how handleNewBooking settles: a booking, an HttpError, any other error
BookingOutcomes ==
  {Fulfilled([status |-> "ACCEPTED", uid |-> "uid-1"]),
   Rejected(HttpError(409)),
   Rejected([name |-> "Error"])}

\* ------------------------------------------------------------------------
\* POST /api/platform/providers/[id]/bookings: the steps of postHandler
\* ------------------------------------------------------------------------

\* allowedDurations: the positive numbers of metadata.multipleDuration, or
\* null when it is no array
allowedDurationsOf(eventType) ==
  IF eventType.metadata = Null
  THEN Null
  ELSE JSArray(SelectSeq(eventType.metadata.multipleDuration.items,
                         LAMBDA value : value > 0))

\* durationToUse and computedEnd, by the three ways the request may give the
\* duration; `start` is valid
durationAndEndOf(data, eventType, start) ==
  IF data.durationMinutes # Undefined
  THEN [computedEnd |-> addMinutes(start, data.durationMinutes.value),
        durationToUse |-> data.durationMinutes.value]
  ELSE IF Truthy(data.end)
  THEN LET computedEnd == dayjs(data.end)
       IN  [computedEnd |-> computedEnd,
            durationToUse |->
              IF computedEnd.valid THEN diffMinutes(computedEnd, start) ELSE 0]
  ELSE [computedEnd |-> addMinutes(start, eventType.length),
        durationToUse |-> eventType.length]

\* hostUsernames: the usernames of the hosts that have one
hostUsernamesOf(eventType) ==
  LET usernames == [i \in DOMAIN eventType.hosts |-> eventType.hosts[i].user.username]
  IN  SelectSeq(usernames, LAMBDA username : Truthy(username))

\* lines 90-159: the answer of the handler to the event type found, or
\* NoResponse when every validation passes
validate(data, eventType) ==
  LET start == dayjs(data.start)
      allowedDurations == allowedDurationsOf(eventType)
      chosen == durationAndEndOf(data, eventType, start)
      durationToUse == chosen.durationToUse
      computedEnd == chosen.computedEnd
  IN  IF eventType = Null
      THEN ErrorResponse(404, "Event type not found for provider")
      ELSE IF eventType.seatsPerTimeSlot # Null /\ eventType.seatsPerTimeSlot.value > 1
      THEN ErrorResponse(400, "Event type is not configured for 1-on-1 bookings")
      ELSE IF ~start.valid
      THEN ErrorResponse(400, "Invalid start time")
      ELSE IF data.durationMinutes # Undefined /\ data.durationMinutes.value <= 0
      THEN ErrorResponse(400, "Duration must be positive")
      ELSE IF ~computedEnd.valid
      THEN ErrorResponse(400, "Invalid end time")
      ELSE IF ~isAfter(computedEnd, start)
      THEN ErrorResponse(400, "End time must be after start time")
      ELSE IF durationToUse <= 0  \* a whole number of minutes is an integer
      THEN ErrorResponse(400, "Duration must be a positive integer")
      ELSE IF /\ allowedDurations # Null
              /\ allowedDurations.items # <<>>
              /\ \A i \in DOMAIN allowedDurations.items :
                   allowedDurations.items[i] # durationToUse
      THEN ErrorResponse(400, "Requested duration not available for this event")
      ELSE IF hostUsernamesOf(eventType) = <<>>
      THEN ErrorResponse(400, "Provider does not have a username configured")
      ELSE NoResponse

\* slotAvailable with only the start of the interval looked at
slotAvailableStartOnly(availability, start, computedEnd) ==
  \E range \in availability.dateRanges :
    /\ ~isBefore(start, dayjs(range.start))
    /\ ~isAfter(start, dayjs(range.end))

\* availability.dateRanges.some(range => !start.isBefore(rangeStart) &&
\* !computedEnd.isAfter(rangeEnd))
slotAvailable(availability, start, computedEnd) ==
  \E range \in availability.dateRanges :
    /\ ~isBefore(start, dayjs(range.start))
    /\ ~isAfter(computedEnd, dayjs(range.end))

\* the bookingData handed to handleNewBooking
bookingDataOf(data, eventType, start, computedEnd) ==
  LET hostUsernames == hostUsernamesOf(eventType)
  IN  [start |-> toISOString(start),
       end |-> toISOString(computedEnd),
       eventTypeId |-> eventType.id,
       user |-> IF Len(hostUsernames) = 1
                THEN hostUsernames[1]
                ELSE JSArray(hostUsernames)]

\* ------------------------------------------------------------------------
\* DELETE /api/platform/providers/[id]/bookings/[bookingId]: inputs
\* ------------------------------------------------------------------------

Providers == 1..MaxProviders

\* the decimal string of a provider id
ProviderIdString(providerId) == JSString(<<DigitChars[providerId + 1]>>)

\* params.id: not a string, no number, zero, negative, a provider id, a
\* provider id followed by other characters
DeleteIds ==
  {Undefined, JSString(<<"x">>), JSString(<<"0">>), JSString(<<"-", "1">>)}
    \cup {ProviderIdString(p) : p \in Providers}
    \cup {JSString(<<DigitChars[p + 1], "x">>) : p \in Providers}

BookingUids == {JSString(<<"a">>), JSString(<<"b">>)}

\* params.bookingId: a string, or not a string
BookingIds == {Undefined} \cup BookingUids

\* the rows of the Booking table: the columns deleteMany filters on
BookingRows == [userId : Providers, uid : BookingUids]

\* the same filter without the userId
deleteManyWhereUid(booking, bookingId, providerId) == booking.uid = bookingId

\* where: {uid: bookingId, userId: providerId}
deleteManyWhere(booking, bookingId, providerId) ==
  booking.uid = bookingId /\ booking.userId = providerId

\* ------------------------------------------------------------------------
\* POST provider signup: inputs and the functions of the route
\* ------------------------------------------------------------------------

LowerCaseLetters == <<"a", "b", "c", "d">>

UpperCaseLetters == <<"A", "B", "C", "D">>

\* a character in lower case
LowerOf(c) ==
  IF \E i \in DOMAIN UpperCaseLetters : UpperCaseLetters[i] = c
  THEN LowerCaseLetters[CHOOSE i \in DOMAIN UpperCaseLetters : UpperCaseLetters[i] = c]
  ELSE c

\* string.toLowerCase()
toLowerCase(string) ==
  JSString([i \in DOMAIN string.chars |-> LowerOf(string.chars[i])])

\* the e-mail addresses of the requests: MaxEmails mailboxes, each written in
\* lower case and with a capital, and a string that is no address
EmailValues ==
  {JSString(<<LowerCaseLetters[i], "@", "x">>) : i \in 1..MaxEmails}
    \cup {JSString(<<UpperCaseLetters[i], "@", "x">>) : i \in 1..MaxEmails}
    \cup {JSString(<<"a">>)}

NameValues == {JSString(<<"n">>), JSString(<<"m">>)}

\* how parseRequestData(req) settles
SignupBodies ==
  {Fulfilled([name |-> name, email |-> email]) : email \in EmailValues, name \in NameValues}
    \cup {Rejected(HttpError(400)), Rejected([name |-> "Error"])}

\* providerSignupSchema accepts the body: the email matches emailRegex
providerSignupSchemaAccepts(body) ==
  \E i \in DOMAIN body.email.chars :
    /\ body.email.chars[i] = "@"
    /\ 1 < i
    /\ i < Len(body.email.chars)

EVENT_DURATION_OPTIONS == <<45, 60, 90>>

EVENT_DEFINITIONS ==
  <<[slugBase |-> "one-on-one", title |-> "OneOnOne"],
    [slugBase |-> "discovery-call", title |-> "DiscoveryCall"],
    [slugBase |-> "action-plan", title |-> "ActionPlan"]>>

INTERNAL_CALENDAR_INTEGRATION == "caldav_calendar"

\* the e-mail the handler passes to handleProviderSignup, kept as written
userEmailAsWritten(providerData) == providerData.email

\* const userEmail = providerData.email.toLowerCase()
userEmailOf(providerData) == toLowerCase(providerData.email)

\* the tables handleProviderSignup reads and writes
EmptyTables ==
  [destinationCalendars |-> {}, eventTypes |-> {}, selectedCalendars |-> {}, users |-> {}]

\* prisma.user.findUnique({where: {email}}): the rows with that email
findUniqueByEmail(tables, email) == {u \in tables.users : u.email = email}

\* prisma.eventType.findMany({where: {userId}})
findManyEventTypes(tables, userId) == {t \in tables.eventTypes : t.userId = userId}

\* the provider of a response
providerOf(user) ==
  [id |-> user.id, username |-> user.username, name |-> user.name, email |-> user.email]

\* the event types of a response
eventTypesOf(rows) ==
  {[id |-> t.id, length |-> t.length, slug |-> t.slug,
    title |-> t.title, durations |-> EVENT_DURATION_OPTIONS] : t \in rows}

\* the user the transaction creates, with its final username; slugify is kept
\* as the name and the id it is applied to
createdUserOf(tables, email, name) ==
  LET id == Cardinality(tables.users) + 1
  IN  [id |-> id, username |-> [id |-> id, slugify |-> name], name |-> name,
       email |-> email]

\* the three event types the transaction creates for the provider
createdEventTypesOf(tables, provider) ==
  {[userId |-> provider.id,
    id |-> Cardinality(tables.eventTypes) + i,
    length |-> 60,
    slug |-> [id |-> provider.id, slugBase |-> EVENT_DEFINITIONS[i].slugBase],
    title |-> EVENT_DEFINITIONS[i].title] : i \in DOMAIN EVENT_DEFINITIONS}

createdCalendarOf(provider) ==
  [userId |-> provider.id,
   externalId |-> [calendarOf |-> provider.id],
   integration |-> INTERNAL_CALENDAR_INTEGRATION]

\* prisma.$transaction(...): the tables after it committed
transactionOf(tables, email, name) ==
  LET provider == createdUserOf(tables, email, name)
  IN  [destinationCalendars |->
         tables.destinationCalendars \cup {createdCalendarOf(provider)},
       eventTypes |-> tables.eventTypes \cup createdEventTypesOf(tables, provider),
       selectedCalendars |-> tables.selectedCalendars \cup {createdCalendarOf(provider)},
       users |-> tables.users \cup {provider}]

\* handleProviderSignup({email, name}) on the tables: the tables it leaves
\* and the response it gives
handleProviderSignup(tables, email, name) ==
  LET existing == findUniqueByEmail(tables, email)
  IN  IF existing # {}
      THEN LET existingUser == CHOOSE u \in existing : TRUE
           IN  [tables |-> tables,
                response |->
                  [status |-> 200,
                   eventTypes |-> eventTypesOf(findManyEventTypes(tables, existingUser.id)),
                   provider |-> providerOf(existingUser),
                   message |-> "Provider already exists"]]
      ELSE LET after == transactionOf(tables, email, name)
               provider == createdUserOf(tables, email, name)
           IN  [tables |-> after,
                response |->
                  [status |-> 201,
                   eventTypes |-> eventTypesOf(createdEventTypesOf(tables, provider)),
                   provider |-> providerOf(provider),
                   message |-> "Provider created successfully",
                   destinationCalendar |-> createdCalendarOf(provider)]]

\* ------------------------------------------------------------------------
\* State
\* ------------------------------------------------------------------------

VARIABLES
  pc,        \* "idle", "fetching" (awaiting getAttributesForLogic), "settled"
  args,      \* [data, options] of the call in progress or last settled
  fetch,     \* how getAttributesAssignmentData settled for that call
  ran,       \* the arguments of the runAttributeLogic calls of that call
  promise,   \* how the call's promise settled; status "pending" before
  prev,      \* [args, fetch, promise] of the fulfilled call this one repeats
  timing,    \* the readings of performance.now() asyncPerf took in that call
  warned,    \* the flag `warned` of the warnOnce closure
  console,   \* the messages written by console.warn
  pass,      \* [queryValue, members] a caller is evaluating member by member
  pending,   \* the members of the pass not evaluated yet
  order,     \* the members of the pass evaluated so far, in evaluation order
  matched,   \* the members of the pass evaluateRaqbLogic matched so far
  lastEval,  \* [input, config, result, emitted] of the last evaluateRaqbLogic
             \* call; emitted are the messages it wrote by console.warn
  prevPass,  \* [queryValue, members, order, matched] of the pass completed before
  postPc,    \* where postHandler is: "idle", "findProvider", "findEventType",
             \* "getAvailability", "handleNewBooking", "responded", "thrown"
  postReq,   \* [id, body] of the booking request in progress
  postFound, \* [provider, eventType, availability] the handler was given so far
  postCalls, \* the arguments of the calls of handleNewBooking of that request
  postResponse, \* the response to that request
  bookings,  \* the rows of the Booking table
  lastDelete, \* [id, bookingId, before, after, count, response] of the last
             \* DELETE; before and after are the Booking table around it
  tables,    \* the tables of the signup route: users, eventTypes, calendars
  lastSignup \* [parsed, before, response] of the last signup request

callVars == <<pc, args, fetch, ran, promise, prev, timing>>

evalVars == <<warned, console, pass, pending, order, matched, lastEval, prevPass>>

postVars == <<postPc, postReq, postFound, postCalls, postResponse>>

deleteVars == <<bookings, lastDelete>>

signupVars == <<tables, lastSignup>>

vars == <<pc, args, fetch, ran, promise, prev, timing,
          warned, console, pass, pending, order, matched, lastEval, prevPass,
          postPc, postReq, postFound, postCalls, postResponse,
          bookings, lastDelete, tables, lastSignup>>

Pending == [status |-> "pending"]

NoCall == [jsType |-> "undefined"]

\* what postHandler was given before any of its lookups returned
NothingFound == [eventType |-> NoCall, availability |-> NoCall, provider |-> NoCall]

Init ==
  /\ pc = "idle"
  /\ args = NoCall
  /\ fetch = Pending
  /\ ran = <<>>
  /\ promise = Pending
  /\ prev = NoCall
  /\ timing = Clock(NotRead, NotRead)
  /\ warned = FALSE
  /\ console = <<>>
  /\ pass = NoCall
  /\ pending = {}
  /\ order = <<>>
  /\ matched = {}
  /\ lastEval = NoCall
  /\ prevPass = NoCall
  /\ postPc = "idle"
  /\ postReq = NoCall
  /\ postFound = NothingFound
  /\ postCalls = <<>>
  /\ postResponse = NoResponse
  /\ bookings = {}
  /\ lastDelete = NoCall
  /\ tables = EmptyTables
  /\ lastSignup = NoCall

\* ------------------------------------------------------------------------
\* Calls of findTeamMembersMatchingAttributeLogic
\* ------------------------------------------------------------------------

\* the function entered with `start` as the first reading of the clock: it
\* runs up to `await getAttributesAssignmentData(...)` inside asyncPerf, or,
\* when that reading throws, the call is rejected before anything is fetched
Enter(data, options, start, previous) ==
  /\ args' = [data |-> data, options |-> options]
  /\ fetch' = Pending
  /\ prev' = previous
  /\ timing' = Clock(start, NotRead)
  /\ IF start.ok
     THEN /\ pc' = "fetching"
          /\ ran' = <<>>
          /\ promise' = Pending
     ELSE /\ pc' = "settled"
          /\ ran' = runAttributeLogicCalls(data, options, Pending, Clock(start, NotRead))
          /\ promise' = findTeamMembersMatchingAttributeLogic(
                          data, options, Pending, Clock(start, NotRead))
  /\ UNCHANGED <<evalVars, postVars, deleteVars, signupVars>>

\* a caller invokes findTeamMembersMatchingAttributeLogic(data, options)
Call(data, options, start) ==
  /\ pc = "idle"
  /\ Enter(data, options, start, NoCall)

\* the caller repeats its fulfilled call with the same data and any options
CallAgain(options, start) ==
  /\ pc = "settled"
  /\ promise.status = "fulfilled"
  /\ Enter(args.data, options, start,
           [args |-> args, fetch |-> fetch, promise |-> promise])

\* getAttributesAssignmentData settles and the function runs to its end;
\* `end` is the second reading of the clock, taken only after a fulfilment
Settle(settled, end) ==
  /\ pc = "fetching"
  /\ pc' = "settled"
  /\ fetch' = settled
  /\ timing' = Clock(timing.start, end)
  /\ ran' = runAttributeLogicCalls(args.data, args.options, settled, timing')
  /\ promise' = findTeamMembersMatchingAttributeLogic(
                  args.data, args.options, settled, timing')
  /\ UNCHANGED <<args, prev>>
  /\ UNCHANGED <<evalVars, postVars, deleteVars, signupVars>>

\* the caller has taken the settled promise; the next call is a new one
CallDone ==
  /\ pc = "settled"
  /\ pc' = "idle"
  /\ args' = NoCall
  /\ fetch' = Pending
  /\ ran' = <<>>
  /\ promise' = Pending
  /\ prev' = NoCall
  /\ timing' = Clock(NotRead, NotRead)
  /\ UNCHANGED <<evalVars, postVars, deleteVars, signupVars>>

Calls ==
  \E data \in DataValues, options \in OptionsValues, start \in StartReadings :
    Call(data, options, start)

CallsAgain ==
  \E options \in OptionsValues, start \in StartReadings : CallAgain(options, start)

FetchResolves == \E r \in FetchResults, end \in EndReadings : Settle(Fulfilled(r), end)

FetchRejects == \E e \in FetchErrors : Settle(Rejected(e), NotRead)

CallNext == Calls \/ CallsAgain \/ FetchResolves \/ FetchRejects \/ CallDone

CallSpec == Init /\ [][CallNext]_vars

\* ------------------------------------------------------------------------
\* Calls of evaluateRaqbLogic
\* ------------------------------------------------------------------------

\* warnOnce without `warned = true`
warnOnceFlagNotSet(message) ==
  /\ warned' = warned
  /\ console' = IF ~warned THEN Append(console, message) ELSE console

\* warnOnce(message)
warnOnce(message) ==
  /\ warned' = TRUE
  /\ console' = IF ~warned THEN Append(console, message) ELSE console

\* evaluateRaqbLogic strict with empty logic
evaluateRaqbLogicStrict(input, config) ==
  IF Truthy(input.beStrictWithEmptyLogic) THEN NO_MATCH ELSE LOGIC_NOT_FOUND_SO_MATCHED

\* evaluateRaqbLogic matching only once the warning has been issued
evaluateRaqbLogicAfterWarning(input, config) ==
  IF warned THEN LOGIC_NOT_FOUND_SO_MATCHED ELSE NO_MATCH

\* evaluateRaqbLogic reporting MATCH whenever a query value is given
evaluateRaqbLogicMatchingTrees(input, config) ==
  IF input.queryValue = Null THEN LOGIC_NOT_FOUND_SO_MATCHED ELSE MATCH

\* the value evaluateRaqbLogic(_input, _config) returns
evaluateRaqbLogic(input, config) == LOGIC_NOT_FOUND_SO_MATCHED

\* a result a caller of evaluateRaqbLogic takes as "the member matches"
IsMatch(result) == result \in {MATCH, LOGIC_NOT_FOUND_SO_MATCHED}

\* a caller starts to evaluate queryValue against each member of a snapshot
StartPass(queryValue, members) ==
  /\ pending = {}
  /\ pass' = [queryValue |-> queryValue, members |-> members]
  /\ pending' = members
  /\ order' = <<>>
  /\ matched' = {}
  /\ prevPass' = IF pass = NoCall
                 THEN prevPass
                 ELSE [order |-> order, matched |-> matched,
                       queryValue |-> pass.queryValue, members |-> pass.members]
  /\ UNCHANGED <<warned, console, lastEval>>
  /\ UNCHANGED <<callVars, postVars, deleteVars, signupVars>>

\* one call evaluateRaqbLogic(input, config) for a member of the pass
Evaluate(member, strict, config) ==
  LET input == [data |-> member,
                beStrictWithEmptyLogic |-> strict,
                queryValue |-> pass.queryValue,
                queryBuilderConfig |-> AttributesOfTheOrg]
      result == evaluateRaqbLogic(input, configOrDefault(config))
  IN  /\ member \in pending
      /\ warnOnce(DisabledEvaluationWarning)
      /\ pending' = pending \ {member}
      /\ order' = Append(order, member)
      /\ matched' = IF IsMatch(result) THEN matched \cup {member} ELSE matched
      /\ lastEval' = [result |-> result,
                       config |-> config,
                       input |-> input, emitted |-> SubSeq(console', Len(console) + 1, Len(console'))]
      /\ UNCHANGED <<pass, prevPass>>
      /\ UNCHANGED <<callVars, postVars, deleteVars, signupVars>>

StartsPass ==
  \E queryValue \in EvaluateQueryValues, r \in FetchResults :
    StartPass(queryValue, r.attributesAssignedToTeamMembersWithOptions)

Evaluates ==
  \E member \in pending, strict \in StrictValues, config \in ConfigValues :
    Evaluate(member, strict, config)

EvalNext == StartsPass \/ Evaluates

EvalSpec == Init /\ [][EvalNext]_vars

\* ------------------------------------------------------------------------
\* Requests to POST /api/platform/providers/[id]/bookings
\* ------------------------------------------------------------------------

\* the request arrives: lines 44-61, up to `await prisma.user.findUnique`
PostRequest(id, body) ==
  /\ postPc = "idle"
  /\ postReq' = [body |-> body, id |-> id]
  /\ postFound' = NothingFound
  /\ postCalls' = <<>>
  /\ IF id.jsType # "string"
     THEN /\ postPc' = "responded"
          /\ postResponse' = ErrorResponse(400, "id is not a string")
     ELSE IF InvalidProviderId(parseInt(id))
     THEN /\ postPc' = "responded"
          /\ postResponse' = ErrorResponse(400, "Invalid provider ID")
     ELSE IF ~SchemaAccepts(body)
     THEN /\ postPc' = "thrown"
          /\ postResponse' = Thrown(ZodError)
     ELSE /\ postPc' = "findProvider"
          /\ postResponse' = NoResponse
  /\ UNCHANGED <<callVars, evalVars, deleteVars, signupVars>>

\* prisma.user.findUnique returns: lines 58-88
ProviderFound(provider) ==
  /\ postPc = "findProvider"
  /\ postFound' = [postFound EXCEPT !.provider = provider]
  /\ IF provider = Null
     THEN /\ postPc' = "responded"
          /\ postResponse' = ErrorResponse(404, "Provider not found")
     ELSE /\ postPc' = "findEventType"
          /\ postResponse' = NoResponse
  /\ UNCHANGED <<postReq, postCalls>>
  /\ UNCHANGED <<callVars, evalVars, deleteVars, signupVars>>

\* prisma.eventType.findFirst returns: lines 90-170, up to
\* `await availabilityService.getUserAvailability`
EventTypeFound(eventType) ==
  /\ postPc = "findEventType"
  /\ postFound' = [postFound EXCEPT !.eventType = eventType]
  /\ postResponse' = validate(postReq.body, eventType)
  /\ postPc' = IF postResponse' = NoResponse THEN "getAvailability" ELSE "responded"
  /\ UNCHANGED <<postReq, postCalls>>
  /\ UNCHANGED <<callVars, evalVars, deleteVars, signupVars>>

\* getUserAvailability returns: lines 172-214, up to `await handleNewBooking`
AvailabilityReturned(availability) ==
  LET data == postReq.body
      eventType == postFound.eventType
      start == dayjs(data.start)
      computedEnd == durationAndEndOf(data, eventType, start).computedEnd
  IN  /\ postPc = "getAvailability"
      /\ postFound' = [postFound EXCEPT !.availability = availability]
      /\ IF ~slotAvailable(availability, start, computedEnd)
         THEN /\ postPc' = "responded"
              /\ postResponse' =
                   ErrorResponse(409, "Provider is no longer available for the requested time")
              /\ postCalls' = postCalls
         ELSE /\ postPc' = "handleNewBooking"
              /\ postResponse' = NoResponse
              /\ postCalls' =
                   Append(postCalls,
                          [userId |-> 0 - 1,
                           bookingData |-> bookingDataOf(data, eventType, start, computedEnd)])
      /\ UNCHANGED postReq
      /\ UNCHANGED <<callVars, evalVars, deleteVars, signupVars>>

\* handleNewBooking settles: lines 216-242
BookingSettled(outcome) ==
  LET data == postReq.body
      eventType == postFound.eventType
      durationToUse ==
        durationAndEndOf(data, eventType, dayjs(data.start)).durationToUse
  IN  /\ postPc = "handleNewBooking"
      /\ IF outcome.status = "fulfilled"
         THEN /\ postPc' = "responded"
              /\ postResponse' =
                   [status |-> 200,
                    providerId |-> parseInt(postReq.id).value,
                    durationMinutes |-> durationToUse,
                    eventTypeId |-> eventType.id,
                    bookingUid |-> outcome.value.uid]
         ELSE IF outcome.reason.name = "HttpError"
         THEN /\ postPc' = "responded"
              /\ postResponse' = ErrorResponse(outcome.reason.statusCode, "HttpError")
         ELSE /\ postPc' = "thrown"
              /\ postResponse' = Thrown(outcome.reason.name)
      /\ UNCHANGED <<postReq, postFound, postCalls>>
      /\ UNCHANGED <<callVars, evalVars, deleteVars, signupVars>>

\* the request is over; the handler waits for the next one
PostDone ==
  /\ postPc \in {"responded", "thrown"}
  /\ postPc' = "idle"
  /\ postReq' = NoCall
  /\ postFound' = NothingFound
  /\ postCalls' = <<>>
  /\ postResponse' = NoResponse
  /\ UNCHANGED <<callVars, evalVars, deleteVars, signupVars>>

PostRequests == \E id \in PostIds, body \in PostBodies : PostRequest(id, body)

ProviderIsFound ==
  /\ postPc = "findProvider"
  /\ \E provider \in ProviderRows(parseInt(postReq.id).value) : ProviderFound(provider)

EventTypeIsFound ==
  /\ postPc = "findEventType"
  /\ \E eventType \in EventTypeRows(postReq.body.eventTypeId) : EventTypeFound(eventType)

AvailabilityReturns ==
  \E availability \in AvailabilityValues : AvailabilityReturned(availability)

BookingSettles == \E outcome \in BookingOutcomes : BookingSettled(outcome)

PostNext ==
  \/ PostRequests
  \/ ProviderIsFound
  \/ EventTypeIsFound
  \/ AvailabilityReturns
  \/ BookingSettles
  \/ PostDone

PostSpec == Init /\ [][PostNext]_vars

\* ------------------------------------------------------------------------
\* Requests to DELETE /api/platform/providers/[id]/bookings/[bookingId]
\* ------------------------------------------------------------------------

\* a booking is stored (by handleNewBooking, outside this route)
BookingCreated(booking) ==
  /\ booking \notin bookings
  /\ bookings' = bookings \cup {booking}
  /\ UNCHANGED lastDelete
  /\ UNCHANGED <<callVars, evalVars, postVars, signupVars>>

\* deleteHandler, from the request to its response
DeleteRequest(id, bookingId) ==
  LET providerId == parseInt(id)
      respond(response, count) ==
        lastDelete' = [id |-> id, bookingId |-> bookingId,
                       response |-> response, after |-> bookings',
                       count |-> count, before |-> bookings]
  IN  /\ IF id.jsType # "string"
         THEN /\ bookings' = bookings
              /\ respond(ErrorResponse(400, "id is not a string"), 0)
         ELSE IF InvalidProviderId(providerId)
         THEN /\ bookings' = bookings
              /\ respond(ErrorResponse(400, "Invalid provider ID"), 0)
         ELSE IF bookingId.jsType # "string"
         THEN /\ bookings' = bookings
              /\ respond(ErrorResponse(400, "bookingId is not a string"), 0)
         ELSE LET deleted ==
                    {b \in bookings : deleteManyWhere(b, bookingId, providerId.value)}
              IN  /\ bookings' = bookings \ deleted
                  /\ IF Cardinality(deleted) = 0
                     THEN respond(ErrorResponse(404,
                            "Booking not found or could not be deleted"), 0)
                     ELSE respond([status |-> 200,
                                   message |-> "Booking deleted successfully"], Cardinality(deleted))
      /\ UNCHANGED <<callVars, evalVars, postVars, signupVars>>

BookingIsCreated == \E booking \in BookingRows : BookingCreated(booking)

DeleteRequests == \E id \in DeleteIds, bookingId \in BookingIds : DeleteRequest(id, bookingId)

DeleteNext == BookingIsCreated \/ DeleteRequests

DeleteSpec == Init /\ [][DeleteNext]_vars

\* ------------------------------------------------------------------------
\* Requests to the provider signup route, one after the other
\* ------------------------------------------------------------------------

\* handler(req), from the request to its response; `parsed` is how
\* parseRequestData(req) settles
SignupRequest(parsed) ==
  LET answer(response, after) ==
        /\ tables' = after
        /\ lastSignup' = [response |-> response, before |-> tables, parsed |-> parsed]
  IN  /\ IF parsed.status = "rejected"
         THEN IF parsed.reason.name = "HttpError"
              THEN answer(ErrorResponse(parsed.reason.statusCode, "HttpError"), tables)
              ELSE answer(ErrorResponse(500, "Internal server error"), tables)
         ELSE IF ~providerSignupSchemaAccepts(parsed.value)
         THEN answer(Thrown(ZodError), tables)
         ELSE LET done == handleProviderSignup(
                            tables, userEmailOf(parsed.value), parsed.value.name)
              IN  answer(done.response, done.tables)
      /\ UNCHANGED <<callVars, evalVars, postVars, deleteVars>>

SignupRequests == \E parsed \in SignupBodies : SignupRequest(parsed)

SignupNext == SignupRequests

SignupSpec == Init /\ [][SignupNext]_vars

\* ------------------------------------------------------------------------
\* The whole module
\* ------------------------------------------------------------------------

Next == CallNext \/ EvalNext \/ PostNext \/ DeleteNext \/ SignupNext

Spec == Init /\ [][Next]_vars

\* ------------------------------------------------------------------------
\* Vocabulary of the properties
\* ------------------------------------------------------------------------

\* whether a member's attribute values satisfy a query tree: AND/OR groups
\* over rules, an empty AND-group true, an empty OR-group false
RECURSIVE Satisfies(_, _)
Satisfies(node, member) ==
  IF node.type = "group"
  THEN IF node.combinator = "AND"
       THEN \A i \in DOMAIN node.rules : Satisfies(node.rules[i], member)
       ELSE \E i \in DOMAIN node.rules : Satisfies(node.rules[i], member)
  ELSE LET values == member[node.attributeId]
       IN  CASE node.operator \in {"EQUALS", "ANY_IN"} -> values \cap node.operand # {}
             [] node.operator \in {"NOT_EQUALS", "NONE_IN"} -> values \cap node.operand = {}
             [] node.operator = "IS_EMPTY" -> values = {}
             [] node.operator = "IS_NOT_EMPTY" -> values # {}

\* the members of a snapshot that satisfy a query tree
MembersSatisfying(tree, members) == {m \in members : Satisfies(tree, m)}

IsTree(v) == v.jsType = "object"

HasNoRules(v) == IsTree(v) /\ v.type = "group" /\ v.rules = <<>>

\* a call of findTeamMembersMatchingAttributeLogic has returned an outcome
Returned == pc = "settled" /\ promise.status = "fulfilled"

Outcome == promise.value

PrimaryValue == args.data.attributesQueryValue

FallbackValue == args.data.fallbackAttributesQueryValue

TroubleshooterEnabled == enableTroubleshooterOf(args.options)

FetchedMembers == fetch.value.attributesAssignedToTeamMembersWithOptions

\* the outcome's matched list holds exactly the members of the set `members`
MatchedIs(outcome, members) ==
  LET list == outcome.teamMembersMatchingAttributeLogic
  IN  /\ list.jsType = "array"
      /\ {list.items[i] : i \in DOMAIN list.items} = members

MatchedIsNull(outcome) == outcome.teamMembersMatchingAttributeLogic = Null

\* the fields of an outcome that carry the troubleshooter record
TroubleshooterKeys == {"troubleshooter", "type", "data"}

HasTroubleshooter(outcome) == DOMAIN outcome \cap TroubleshooterKeys # {}

TroubleshooterCaseIs(outcome, case) ==
  "type" \in DOMAIN outcome /\ outcome.type = case

\* runAttributeLogic ran once, on the primary query value, and nothing was
\* evaluated for the fallback query value
OnlyPrimaryRan ==
  /\ Len(ran) = 1
  /\ ran[1].data.attributesQueryValue = PrimaryValue
  /\ Outcome.fallbackAttributeLogicBuildingWarnings = JSArray(<<>>)

PrimaryMatchesNobody ==
  IsTree(PrimaryValue) /\ MembersSatisfying(PrimaryValue, FetchedMembers) = {}

\* ------------------------------------------------------------------------
\* Properties of findTeamMembersMatchingAttributeLogic (CallSpec)
\* ------------------------------------------------------------------------

\* C1 as stated: without a primary query value the matched list is the list
\* of all fetched members and checkedFallback is false.
C1_AllMembersListed ==
  (Returned /\ PrimaryValue = Null) =>
    /\ MatchedIs(Outcome, FetchedMembers)
    /\ Outcome.checkedFallback = FALSE

\* C1 amended: without a primary query value teamMembersMatchingAttributeLogic
\* is null (no list of members is built) and checkedFallback is false, whatever
\* the fallback query value, the dynamic operands and the troubleshooter flag.
C1_NoLogicReturnsNull ==
  (Returned /\ PrimaryValue = Null) =>
    /\ MatchedIsNull(Outcome)
    /\ Outcome.checkedFallback = FALSE

C1_Witness ==
  /\ Returned
  /\ PrimaryValue = Null
  /\ FetchedMembers # {}
  /\ IsTree(FallbackValue)
  /\ args.data.dynamicFieldValueOperands # Undefined
  /\ TroubleshooterEnabled

\* the case of C2: the primary tree matches nobody, the fallback tree somebody
C2_Case ==
  /\ Returned
  /\ PrimaryMatchesNobody
  /\ IsTree(FallbackValue)
  /\ MembersSatisfying(FallbackValue, FetchedMembers) # {}

\* C2 as stated: when the primary tree matches no member and the fallback
\* tree matches the non-empty set M, the outcome is M with checkedFallback true.
C2_FallbackActivates ==
  C2_Case =>
    /\ MatchedIs(Outcome, MembersSatisfying(FallbackValue, FetchedMembers))
    /\ Outcome.checkedFallback = TRUE

\* C2 amended: in that case the fallback tree is not consulted: the outcome is
\* null with checkedFallback false, and only the primary query value was run.
C2_FallbackNeverActivates ==
  C2_Case =>
    /\ MatchedIsNull(Outcome)
    /\ Outcome.checkedFallback = FALSE
    /\ OnlyPrimaryRan

C2_Witness == C2_Case /\ FetchedMembers = {TeamMember(2)}

\* the case of C3: a primary tree with rules matches nobody, and so does the
\* fallback tree when one is supplied
C3_Case ==
  /\ Returned
  /\ PrimaryMatchesNobody
  /\ ~HasNoRules(PrimaryValue)
  /\ \/ ~IsTree(FallbackValue)
     \/ MembersSatisfying(FallbackValue, FetchedMembers) = {}

\* C3 as stated: when primary and fallback match nobody the matched set is
\* empty, and is not null (which stands for "no restriction").
C3_EmptyOnExhaustion == C3_Case => MatchedIs(Outcome, {})

\* C3 amended: when primary and fallback match nobody the outcome is null, not
\* an empty list, with checkedFallback false.
C3_NullOnExhaustion ==
  C3_Case =>
    /\ MatchedIsNull(Outcome)
    /\ ~MatchedIs(Outcome, {})
    /\ Outcome.checkedFallback = FALSE

C3_Witness ==
  /\ C3_Case
  /\ FetchedMembers = {TeamMember(2)}
  /\ FallbackValue = EmptyOr

\* the outcome fields C5 compares between the two calls
SameDecision(a, b) ==
  /\ a.teamMembersMatchingAttributeLogic = b.teamMembersMatchingAttributeLogic
  /\ a.checkedFallback = b.checkedFallback
  /\ a.mainAttributeLogicBuildingWarnings = b.mainAttributeLogicBuildingWarnings
  /\ a.fallbackAttributeLogicBuildingWarnings = b.fallbackAttributeLogicBuildingWarnings
  /\ DOMAIN a \ TroubleshooterKeys = DOMAIN b \ TroubleshooterKeys

\* the call that returned repeats a call with the same data and the same
\* fetched attributes
C5_Case ==
  /\ Returned
  /\ prev # NoCall
  /\ prev.args.data = args.data
  /\ prev.fetch = fetch

\* C5: two calls that differ only in enableTroubleshooter return the same
\* matched members, checkedFallback and warning lists; a troubleshooter record
\* is attached exactly when the troubleshooter is enabled.
C5_TroubleshooterNonInterference ==
  /\ C5_Case => SameDecision(Outcome, prev.promise.value)
  /\ Returned => (HasTroubleshooter(Outcome) <=> TroubleshooterEnabled)

C5_Witness ==
  /\ C5_Case
  /\ TroubleshooterEnabled
  /\ ~enableTroubleshooterOf(prev.args.options)
  /\ IsTree(PrimaryValue)
  /\ HasTroubleshooter(Outcome)
  /\ ~HasTroubleshooter(prev.promise.value)

\* C6: the warning guarded by shouldWarnAboutMissingLogic is in the outcome
\* exactly when the call has no primary query value, and then the
\* troubleshooter case (when enabled) is NO_LOGIC_FOUND.
C6_MissingLogicWarning ==
  Returned =>
    /\ (Outcome.mainAttributeLogicBuildingWarnings # JSArray(<<>>))
         <=> (PrimaryValue = Null)
    /\ (PrimaryValue = Null /\ TroubleshooterEnabled)
         => TroubleshooterCaseIs(Outcome, NO_LOGIC_FOUND)

\* the case of C7: the primary tree is present and matches a member
C7_Case ==
  /\ Returned
  /\ IsTree(PrimaryValue)
  /\ MembersSatisfying(PrimaryValue, FetchedMembers) # {}

\* C7 as stated: the call ends in the primary stage: the fallback is not
\* evaluated, checkedFallback is false, the case is MATCH_RESULTS_READY.
C7_PrimaryStageReady ==
  C7_Case =>
    /\ OnlyPrimaryRan
    /\ Outcome.checkedFallback = FALSE
    /\ TroubleshooterEnabled => TroubleshooterCaseIs(Outcome, MATCH_RESULTS_READY)

\* C7 amended: the call ends in the primary stage: the fallback is not
\* evaluated, checkedFallback is false, the case (when enabled) is NO_LOGIC_FOUND.
C7_PrimaryStageNoLogicFound ==
  C7_Case =>
    /\ OnlyPrimaryRan
    /\ Outcome.checkedFallback = FALSE
    /\ TroubleshooterEnabled => TroubleshooterCaseIs(Outcome, NO_LOGIC_FOUND)

C7_Witness ==
  /\ C7_Case
  /\ TroubleshooterEnabled
  /\ IsTree(FallbackValue)
  /\ PrimaryValue = EqSales

\* C8 as stated: a primary tree with zero rules returns all members and the
\* case MATCHES_ALL_MEMBERS_BECAUSE_OF_EMPTY_QUERY_VALUE.
C8_EmptyQueryValueCase ==
  (Returned /\ HasNoRules(PrimaryValue)) =>
    /\ MatchedIs(Outcome, FetchedMembers)
    /\ TroubleshooterEnabled =>
         TroubleshooterCaseIs(Outcome, MATCHES_ALL_MEMBERS_BECAUSE_OF_EMPTY_QUERY_VALUE)

\* C8 amended: a primary tree with zero rules returns null, and the case (when
\* enabled) is NO_LOGIC_FOUND, the case of an absent tree.
C8_EmptyQueryValueIsNoLogicFound ==
  (Returned /\ HasNoRules(PrimaryValue)) =>
    /\ MatchedIsNull(Outcome)
    /\ TroubleshooterEnabled => TroubleshooterCaseIs(Outcome, NO_LOGIC_FOUND)

C8_Witness ==
  /\ Returned
  /\ PrimaryValue = EmptyAnd
  /\ TroubleshooterEnabled
  /\ FetchedMembers # {}

\* C10: when the attribute fetch fails the call's promise is rejected with
\* the fetch's failure, runAttributeLogic is not entered and no outcome exists.
C10_FetchFailureIsHard ==
  (pc = "settled" /\ fetch.status = "rejected") =>
    /\ promise = Rejected(fetch.reason)
    /\ ran = <<>>
    /\ "value" \notin DOMAIN promise

C10_Witness ==
  /\ pc = "settled"
  /\ fetch.status = "rejected"
  /\ IsTree(PrimaryValue)
  /\ TroubleshooterEnabled

\* ------------------------------------------------------------------------
\* Properties of evaluateRaqbLogic (EvalSpec)
\* ------------------------------------------------------------------------

Evaluated == lastEval # NoCall

\* C4 as stated: for every member the evaluator matches an AND-group with zero
\* children and does not match an OR-group with zero children.
C4_EmptyGroups ==
  Evaluated =>
    /\ lastEval.input.queryValue = EmptyAnd => IsMatch(lastEval.result)
    /\ lastEval.input.queryValue = EmptyOr => ~IsMatch(lastEval.result)

\* C4 amended: for every member the evaluator matches an AND-group with zero
\* children and also an OR-group with zero children, with the result
\* LOGIC_NOT_FOUND_SO_MATCHED.
C4_EmptyGroupsBothMatch ==
  (Evaluated /\ HasNoRules(lastEval.input.queryValue)) =>
    /\ IsMatch(lastEval.result)
    /\ lastEval.result = LOGIC_NOT_FOUND_SO_MATCHED

C4_Witness ==
  /\ Evaluated
  /\ lastEval.input.queryValue = EmptyOr
  /\ lastEval.input.data = TeamMember(1)
  /\ lastEval.input.beStrictWithEmptyLogic = JSBool(TRUE)

\* two completed passes over the same query value and the same members
C9_Case ==
  /\ pass # NoCall
  /\ pending = {}
  /\ prevPass # NoCall
  /\ prevPass.queryValue = pass.queryValue
  /\ prevPass.members = pass.members

\* C9: two evaluations of the same query value against the same member
\* snapshot give the same matched set, in whatever order the members of each
\* are evaluated.
C9_Determinism == C9_Case => matched = prevPass.matched

\* two passes that evaluated two or more members in different orders
C9_Witness ==
  /\ C9_Case
  /\ IsTree(pass.queryValue)
  /\ Cardinality(pass.members) >= 2
  /\ order # prevPass.order
  /\ matched = pass.members

\* ------------------------------------------------------------------------
\* C11: what carries over from one call to the next
\* ------------------------------------------------------------------------

\* C11 (as stated): the engine is stateless between invocations: a call of
\* evaluateRaqbLogic that follows a call with the same input and config
\* returns the same result and emits the same warnings, however many calls
\* came before, and leaves the flag of warnOnce as it found it.
C11_Stateless ==
  [][(/\ Evaluated
      /\ lastEval' # NoCall
      /\ lastEval'.input = lastEval.input
      /\ lastEval'.config = lastEval.config)
     => (/\ lastEval'.result = lastEval.result
         /\ lastEval'.emitted = lastEval.emitted
         /\ warned' = warned)]_vars

\* C11 (amended): the result of a call never depends on earlier calls, but
\* the flag `warned` of warnOnce carries over: it is set from the first call
\* of evaluateRaqbLogic on, only the call that finds it unset writes the
\* warning, and so console holds the warning exactly once however many
\* calls were made.
C11_WarnedCarriesOver ==
  /\ warned <=> Evaluated
  /\ console = IF warned THEN <<DisabledEvaluationWarning>> ELSE <<>>
  /\ Evaluated =>
       /\ lastEval.result = evaluateRaqbLogic(lastEval.input, configOrDefault(lastEval.config))
       /\ lastEval.emitted \in {<<>>, <<DisabledEvaluationWarning>>}

\* a call of evaluateRaqbLogic after the first one: it wrote no warning
C11_Witness ==
  /\ Evaluated
  /\ warned
  /\ lastEval.emitted = <<>>
  /\ Len(console) = 1

\* ------------------------------------------------------------------------
\* C12: a failure of the clock while the fetch is timed
\* ------------------------------------------------------------------------

\* a reading of performance.now() threw in the call that settled
ClockFailed ==
  /\ pc = "settled"
  /\ (timing.start = ClockFailure \/ timing.end = ClockFailure)

\* C12: a timing failure never aborts the call: when the clock fails while
\* the fetch is timed the call still returns an outcome, the duration is
\* reported as null, and the matched set, checkedFallback and warnings are
\* those of the call whose timing succeeds.
C12_TimingFailureNeverAborts ==
  ClockFailed =>
    /\ promise.status = "fulfilled"
    /\ Outcome.timeTaken.ttGetAttributesForLogic = Null
    /\ fetch.status = "fulfilled" =>
         SameDecision(Outcome,
                      findTeamMembersMatchingAttributeLogic(
                        args.data, args.options, fetch,
                        Clock(Reading(0), Reading(0))).value)

\* ------------------------------------------------------------------------
\* C13: a dynamic operand with no bound value
\* ------------------------------------------------------------------------

\* the call that settled had fetched its attributes; its primary tree is one
\* rule on a dynamic operand, and dynamicFieldValueOperands binds nothing
C13_Case ==
  /\ pc = "settled"
  /\ fetch.status = "fulfilled"
  /\ PrimaryValue = EqDynamic
  /\ args.data.dynamicFieldValueOperands = Undefined

\* how the same call settles with the operand bound
C13_SettledWithOperandBound ==
  findTeamMembersMatchingAttributeLogic(
    [args.data EXCEPT !.dynamicFieldValueOperands = BoundOperands],
    args.options, fetch, timing)

\* C13 (as stated): an unbound dynamic operand does not fail the call: the
\* rule that uses it is treated as non-matching (so a tree of that one rule
\* matches nobody), and a warning is appended to the outcome's warnings,
\* beyond those of the call with the operand bound.
C13_UnboundOperandWarns ==
  (C13_Case /\ timing.end.ok) =>
    /\ promise.status = "fulfilled"
    /\ MatchedIs(Outcome, {})
    /\ Len(Outcome.mainAttributeLogicBuildingWarnings.items) >
         Len(C13_SettledWithOperandBound.value.mainAttributeLogicBuildingWarnings.items)

\* C13 (amended): an unbound dynamic operand does not fail the call, because
\* dynamicFieldValueOperands is never read: the call settles exactly as the
\* same call with the operand bound, no rule is evaluated, the matched list
\* is null and no warning is added for the operand.
C13_UnboundOperandIsIgnored ==
  C13_Case =>
    /\ promise = C13_SettledWithOperandBound
    /\ timing.end.ok => (promise.status = "fulfilled" /\ MatchedIsNull(Outcome))

C13_Witness ==
  /\ C13_Case
  /\ Returned
  /\ FetchedMembers # {}
  /\ MatchedIsNull(Outcome)

\* ------------------------------------------------------------------------
\* C14: the stubbed evaluation strategy
\* ------------------------------------------------------------------------

\* C14: evaluateRaqbLogic returns LOGIC_NOT_FOUND_SO_MATCHED for every input
\* (any query value, any member data, any beStrictWithEmptyLogic, any log
\* level or none), and never MATCH or NO_MATCH.
C14_StubAlwaysMatches ==
  Evaluated =>
    /\ lastEval.result = LOGIC_NOT_FOUND_SO_MATCHED
    /\ lastEval.result \notin {MATCH, NO_MATCH}

\* a strict call at log level 0 for a member outside Sales on the tree
\* `Department EQUALS Sales`
C14_Witness ==
  /\ Evaluated
  /\ lastEval.input.queryValue = EqSales
  /\ ~Satisfies(EqSales, lastEval.input.data)
  /\ lastEval.input.beStrictWithEmptyLogic = JSBool(TRUE)
  /\ lastEval.config = [logLevel |-> 0]
  /\ lastEval.result = LOGIC_NOT_FOUND_SO_MATCHED

\* ------------------------------------------------------------------------
\* C15: when the booking POST handler invokes handleNewBooking
\* ------------------------------------------------------------------------

\* handleNewBooking was invoked for the request in progress
C15_Invoked == postCalls # <<>>

\* the interval handed to handleNewBooking, in ticks
C15_BookedStart == postCalls[1].bookingData.start.iso

C15_BookedEnd == postCalls[1].bookingData.end.iso

\* a date range contains the interval from..to
C15_Contains(range, from, to) == range.start.at <= from /\ to <= range.end.at

\* every validation of the handler passed for the request, told from the
\* request, the rows found and the interval booked
C15_ValidationsPassed ==
  LET body == postReq.body
      eventType == postFound.eventType
      minutes == (C15_BookedEnd - C15_BookedStart) \div TicksPerMinute
  IN  /\ postReq.id.jsType = "string"
      /\ parseInt(postReq.id).value > 0
      /\ body.eventTypeId > 0
      /\ postFound.provider \notin {NoCall, Null}
      /\ eventType \notin {NoCall, Null}
      /\ eventType.seatsPerTimeSlot \in {Null, JSNum(0), JSNum(1)}
      /\ body.start = ISO(C15_BookedStart)
      /\ C15_BookedEnd > C15_BookedStart
      /\ minutes >= 1
      /\ body.durationMinutes # Undefined => body.durationMinutes.value = minutes
      /\ (body.durationMinutes = Undefined /\ body.end # Undefined) =>
           body.end = ISO(C15_BookedEnd)
      /\ (body.durationMinutes = Undefined /\ body.end = Undefined) =>
           eventType.length = minutes
      /\ eventType.metadata # Null =>
           \E i \in DOMAIN eventType.metadata.multipleDuration.items :
             eventType.metadata.multipleDuration.items[i] = minutes
      /\ \E i \in DOMAIN eventType.hosts : eventType.hosts[i].user.username # Null

\* the interval the request asks for: start and computedEnd of the handler
C15_RequestedStart == dayjs(postReq.body.start)

C15_RequestedEnd ==
  durationAndEndOf(postReq.body, postFound.eventType, C15_RequestedStart).computedEnd

\* C15: handleNewBooking is invoked only after every validation has passed
\* and only if a date range returned by getUserAvailability contains the
\* whole requested interval (range.start <= start and computedEnd <=
\* range.end); when no range contains it the handler responds 409 and
\* handleNewBooking is not invoked.
C15_InvokedOnlyWhenAvailable ==
  /\ C15_Invoked =>
       /\ Len(postCalls) = 1
       /\ postPc \in {"handleNewBooking", "responded", "thrown"}
       /\ C15_ValidationsPassed
       /\ \E range \in postFound.availability.dateRanges :
            C15_Contains(range, C15_BookedStart, C15_BookedEnd)
  /\ (/\ postFound.availability # NoCall
      /\ ~\E range \in postFound.availability.dateRanges :
            C15_Contains(range, C15_RequestedStart.at, C15_RequestedEnd.at)) =>
       /\ postPc = "responded"
       /\ postResponse.status = 409
       /\ ~C15_Invoked

\* handleNewBooking was invoked and the booking answered, where one of the
\* two date ranges returned does not contain the interval
C15_Witness ==
  /\ C15_Invoked
  /\ postPc = "responded"
  /\ postResponse.status = 200
  /\ Cardinality(postFound.availability.dateRanges) = 2
  /\ \E range \in postFound.availability.dateRanges :
       ~C15_Contains(range, C15_BookedStart, C15_BookedEnd)

\* ------------------------------------------------------------------------
\* C16: what the booking DELETE handler removes and answers
\* ------------------------------------------------------------------------

\* the bookings the last DELETE removed
C16_Removed == lastDelete.before \ lastDelete.after

\* the provider id requested: the number the path parameter id reads as
C16_ProviderId == parseInt(lastDelete.id)

\* a booking is the one the request names
C16_Named(booking) ==
  /\ lastDelete.id.jsType = "string"
  /\ IsFinite(C16_ProviderId)
  /\ booking.uid = lastDelete.bookingId
  /\ booking.userId = C16_ProviderId.value

\* the request passes the checks of its path parameters
C16_ParametersValid ==
  /\ lastDelete.id.jsType = "string"
  /\ IsFinite(C16_ProviderId)
  /\ C16_ProviderId.value > 0
  /\ lastDelete.bookingId.jsType = "string"

\* C16 (as stated): the DELETE handler removes only bookings whose uid is the
\* requested bookingId and whose userId is the requested provider id, leaves
\* every other booking unchanged, and answers 404 exactly when no booking
\* was deleted.
C16_NotFoundIffNothingDeleted ==
  lastDelete # NoCall =>
    /\ lastDelete.after \subseteq lastDelete.before
    /\ \A booking \in C16_Removed : C16_Named(booking)
    /\ lastDelete.response.status = 404 <=> C16_Removed = {}

\* C16 (amended): the DELETE handler removes exactly the bookings whose uid
\* is the requested bookingId and whose userId is the requested provider id
\* and leaves every other booking unchanged; a request whose id is no string
\* or no positive number, or whose bookingId is no string, is answered 400
\* and deletes nothing; any other request is answered 404 exactly when no
\* booking was deleted, and 200 otherwise.
C16_NotFoundIffValidAndNothingDeleted ==
  lastDelete # NoCall =>
    /\ lastDelete.after \subseteq lastDelete.before
    /\ \A booking \in C16_Removed : C16_Named(booking)
    /\ C16_ParametersValid =>
         /\ C16_Removed = {b \in lastDelete.before : C16_Named(b)}
         /\ lastDelete.response.status = 404 <=> C16_Removed = {}
         /\ lastDelete.response.status = 200 <=> C16_Removed # {}
    /\ ~C16_ParametersValid =>
         /\ lastDelete.response.status = 400
         /\ C16_Removed = {}

\* a DELETE removed a booking while the booking with the same uid of another
\* provider stayed
C16_Witness ==
  /\ lastDelete # NoCall
  /\ C16_ParametersValid
  /\ C16_Removed # {}
  /\ lastDelete.response.status = 200
  /\ \E kept \in lastDelete.after :
       kept.uid = lastDelete.bookingId /\ kept.userId # C16_ProviderId.value

\* ------------------------------------------------------------------------
\* C17: signups with the same email, one after the other
\* ------------------------------------------------------------------------

\* the last signup request was answered by handleProviderSignup
C17_Answered ==
  /\ lastSignup # NoCall
  /\ lastSignup.parsed.status = "fulfilled"
  /\ "status" \in DOMAIN lastSignup.response
  /\ lastSignup.response.status \in {200, 201}

\* the email of that request, in lower case
C17_Email == toLowerCase(lastSignup.parsed.value.email)

\* the users of the tables `t` with that email
C17_UsersOf(t) == {u \in t.users : toLowerCase(u.email) = C17_Email}

\* C17: when a user with the lower-cased email already exists, the signup
\* creates no user, event type, destination calendar or selected calendar
\* and returns the existing provider with its event types; after any
\* sequence of signups made one after the other, exactly one user exists for
\* the email, with one set of three event types (and one calendar of each
\* kind).
C17_SignupIsIdempotent ==
  C17_Answered =>
    /\ C17_UsersOf(lastSignup.before) # {} =>
         /\ tables = lastSignup.before
         /\ lastSignup.response.status = 200
         /\ \E u \in C17_UsersOf(lastSignup.before) :
              /\ lastSignup.response.provider.id = u.id
              /\ lastSignup.response.provider.email = u.email
              /\ {t.id : t \in lastSignup.response.eventTypes} =
                   {t.id : t \in {e \in tables.eventTypes : e.userId = u.id}}
    /\ Cardinality(C17_UsersOf(tables)) = 1
    /\ \A u \in C17_UsersOf(tables) :
         /\ Cardinality({e \in tables.eventTypes : e.userId = u.id}) = 3
         /\ {e.title : e \in {e \in tables.eventTypes : e.userId = u.id}} =
              {"OneOnOne", "DiscoveryCall", "ActionPlan"}
         /\ Cardinality({c \in tables.destinationCalendars : c.userId = u.id}) = 1
         /\ Cardinality({c \in tables.selectedCalendars : c.userId = u.id}) = 1

\* a signup whose email, written with a capital, belongs to a provider that
\* signed up before, while another provider exists as well
C17_Witness ==
  /\ C17_Answered
  /\ C17_UsersOf(lastSignup.before) # {}
  /\ lastSignup.parsed.value.email # C17_Email
  /\ Cardinality(tables.users) = 2
  /\ lastSignup.response.status = 200

====
